---------------------------- MODULE Spec2Model ----------------------------
(***************************************************************************)
(* Event cache, fetch coordinator and calendar binding of the agenda page. *)
(*                                                                         *)
(* Sources: src/app/agenda/static/storage.js (storage.js followed by       *)
(* calendar.js: initCalendarApp) and src/unnamed/part_000                  *)
(* (__initAgendaApp: mini navigator, datesSet handlers, hard refresh).     *)
(*                                                                         *)
(* Time is a number of ticks; a day is TicksPerDay ticks and a month is    *)
(* DaysPerMonth days.  A date string is a pair <<separator, instant>>: the *)
(* server writes "YYYY-MM-DD HH:MM" or "YYYY-MM-DDTHH:MM".                 *)
(* Execution is the browser's event loop: every action below is one task   *)
(* together with the microtasks (promise callbacks) it runs.               *)
(***************************************************************************)
EXTENDS Integers, Sequences, FiniteSets, TLC

(* ------------------------------ bounds -------------------------------- *)
NumMonths == 3
MaxFetches == 2
MaxSideOps == 1
MaxListLen == 1
MaxAbsorbLen == 2
MaxQueryTime == 3
MaxDentistId == 1

(* --------------------------- the calendar ----------------------------- *)
(* Date arithmetic: setHours(0, 0, 0, 0) cuts to the day, new Date(y, m, 1) to
   the month *)
TicksPerDay == 2
DaysPerMonth == 2

TicksPerMonth == TicksPerDay * DaysPerMonth

(* storage.js:123-125: key, start and end of an empty cache are null *)
NoKey == <<>>
NoDate == -1
NoOverride == <<>>


(* ------------------------------ dates --------------------------------- *)
(* new Date(String(s).replace(' ', 'T')): both separators give the instant;
   anything else is an Invalid Date, whose getTime() is NaN *)
NaN == -2
parseDate(s) == IF s[1] \in {"T", " "} THEN s[2] ELSE NaN

startOfDay(t) == (t \div TicksPerDay) * TicksPerDay
startOfMonth(t) == (t \div TicksPerMonth) * TicksPerMonth
startOfNextMonth(t) == startOfMonth(t) + TicksPerMonth

(* the visible ranges FullCalendar asks for: whole days *)
Views == {<<m * TicksPerMonth, m * TicksPerMonth + TicksPerDay>> : m \in {0, NumMonths - 1}}
         \cup {<<m * TicksPerMonth - TicksPerDay, m * TicksPerMonth + TicksPerDay>> : m \in 1..(NumMonths - 1)}
(* the mini navigator shows one month: view.currentStart / view.currentEnd *)
MiniMonths == {<<m * TicksPerMonth, (m + 1) * TicksPerMonth>> : m \in 0..(NumMonths - 1)}

(* ------------------------------ events -------------------------------- *)
(* an id is a number <<"n", i>> (server JSON) or a string <<"s", i>>
   (FullCalendar's event.id); String(id) is its text *)
String(id) == id[2]

EvA == [id |-> <<"n", 1>>, title |-> "A", start |-> <<"T", 1>>, end |-> <<"T", 2>>,
        color |-> "red", extendedProps |-> [notes |-> "n"]]
EvB == [id |-> <<"n", 1>>, title |-> "B", start |-> <<" ", 1>>, end |-> <<" ", 3>>,
        extendedProps |-> [profissional_id |-> 7]]
EvC == [id |-> <<"n", 2>>, title |-> "C", start |-> <<"T", 9>>]
EventPool == {EvA, EvB, EvC}

RECURSIVE DistinctIds(_)
DistinctIds(list) ==
    IF Len(list) <= 1 THEN TRUE
    ELSE /\ \A i \in 2..Len(list) : String(list[i].id) # String(list[1].id)
         /\ DistinctIds(Tail(list))

RECURSIVE SeqsUpTo(_, _)
SeqsUpTo(S, n) ==
    IF n = 0 THEN {<<>>}
    ELSE LET shorter == SeqsUpTo(S, n - 1)
         IN shorter \cup {Append(s, x) : s \in {t \in shorter : Len(t) = n - 1}, x \in S}

(* what GET /events can answer: a JSON array of events, each id once *)
ServerLists == {l \in SeqsUpTo(EventPool, MaxListLen) : DistinctIds(l)}

(* { ...old, ...changes } *)
Spread(old, changes) ==
    [f \in (DOMAIN old) \cup (DOMAIN changes) |->
        IF f \in DOMAIN changes THEN changes[f] ELSE old[f]]

IndexOfId(list, id) ==
    LET hits == {i \in 1..Len(list) : String(list[i].id) = String(id)}
    IN IF hits = {} THEN 0 ELSE CHOOSE i \in hits : \A j \in hits : i <= j


(* ------------------------------- state -------------------------------- *)
VARIABLES
    selectedDentists,      \* localStorage 'selectedDentists' (array of ids)
    includeUnassigned,     \* localStorage 'includeUnassigned'
    searchQuery,           \* localStorage 'calendarSearchQuery'
    sharedEventsCache,     \* [key, start, end, events]
    pendingEventsFetches,  \* Map: dedupKey -> promise (the request's number)
    inflight,              \* GET /events requests sent and not yet settled
    waiters,               \* callbacks attached to a pending promise, in order
    fetchMonthOverride,    \* window.__fetchMonthOverride: NoOverride or <<start, end>>
    nextRid,               \* number of the next request
    sideOps,               \* attached callers, filter changes and point mutations so far
    fetched,               \* history: the ranges absorbed since the window was last replaced
    lastOp,                \* history: what the last task did (a settlement, a cache operation)
    localStorage,          \* the browser's key-value storage: key -> stored text
    storageFails,          \* localStorage.getItem / setItem throw (quota, privacy mode)
    dentistsCache,         \* dentistsCache: list, and (history) when the list left the server
    dentistsPending,       \* let dentistsPending: Null or <<n>>, the promise of request n
    dentistRequests,       \* GET /dentists requests sent and not yet settled
    now,                   \* Date.now()
    isLoading,             \* AIConfigManager.isLoading
    searchController,      \* AIConfigManager.searchController: null or the AbortController of a request
    searchRequests,        \* GET /ai/api/models/search requests sent and not yet settled
    searchResults,         \* AIConfigManager.searchResults: Null or <<q>>, the models found for q
    lastSearchQuery        \* AIConfigManager.lastSearchQuery

calendarVars == <<selectedDentists, includeUnassigned, searchQuery, sharedEventsCache,
                  pendingEventsFetches, inflight, waiters, fetchMonthOverride,
                  nextRid, sideOps, fetched>>
adapterVars == <<localStorage, storageFails>>
dentistVars == <<dentistsCache, dentistsPending, dentistRequests, now>>
searchVars == <<isLoading, searchController, searchRequests, searchResults,
                lastSearchQuery>>

vars == <<calendarVars, lastOp, adapterVars, dentistVars, searchVars>>

(* the state of the other modules of the page right after the scripts ran:
   nothing stored, no dentist list, no search *)
Null == <<>>
AdapterInit ==
    /\ localStorage = <<>>
    /\ storageFails = FALSE
DentistInit ==
    /\ dentistsCache = [list |-> <<>>, at |-> 0]
    /\ dentistsPending = Null
    /\ dentistRequests = {}
    /\ now = 1
SearchInit ==
    /\ isLoading = FALSE
    /\ searchController = Null
    /\ searchRequests = {}
    /\ searchResults = Null
    /\ lastSearchQuery = ""

(* ---------------------------- filter key ------------------------------ *)
RECURSIVE InsertSorted(_, _)
InsertSorted(sorted, x) ==
    IF sorted = <<>> THEN <<x>>
    ELSE IF x < Head(sorted) THEN <<x>> \o sorted
    ELSE <<Head(sorted)>> \o InsertSorted(Tail(sorted), x)

RECURSIVE SortIds(_)
SortIds(ids) ==
    IF ids = <<>> THEN <<>>
    ELSE InsertSorted(SortIds(SubSeq(ids, 1, Len(ids) - 1)), ids[Len(ids)])

(* `${ids.join(',')}|${includeUn}|${q}` with ids sorted ascending: the three
   parts of the string, kept apart *)
CacheKeyOf(ids, includeUn, q) ==
    <<SortIds(ids), IF includeUn THEN "1" ELSE "", q>>

buildCacheKey == CacheKeyOf(selectedDentists, includeUnassigned, searchQuery)

(* --------------------------- the event cache --------------------------- *)
RECURSIVE MapSetAll(_, _)
(* forEach(e => byId.set(String(e.id), e)) on a Map kept in insertion order *)
MapSetAll(entries, list) ==
    IF list = <<>> THEN entries
    ELSE LET e == Head(list)
             i == IndexOfId(entries, e.id)
         IN MapSetAll(IF i = 0 THEN Append(entries, e)
                      ELSE [entries EXCEPT ![i] = e],
                      Tail(list))

(* a merge that appends the incoming events to the stored ones *)
storeEventsAppends(list, covStart, covEnd, key) ==
    LET c == sharedEventsCache
        sameKey == c.key = key
    IN IF ~sameKey \/ c.start = NoDate \/ c.end = NoDate
       THEN [key |-> key, start |-> covStart, end |-> covEnd, events |-> list]
       ELSE [key |-> c.key,
             start |-> IF covStart < c.start THEN covStart ELSE c.start,
             end |-> IF covEnd > c.end THEN covEnd ELSE c.end,
             events |-> c.events \o list]

(* a merge in which the stored event wins over the incoming one and the
   coverage keeps its old end *)
storeEventsKeepsOld(list, covStart, covEnd, key) ==
    LET c == sharedEventsCache
        sameKey == c.key = key
    IN IF ~sameKey \/ c.start = NoDate \/ c.end = NoDate
       THEN [key |-> key, start |-> covStart, end |-> covEnd, events |-> list]
       ELSE [key |-> c.key,
             start |-> IF covStart < c.start THEN covStart ELSE c.start,
             end |-> IF covEnd > c.end THEN covEnd ELSE c.end,
             events |-> MapSetAll(MapSetAll(<<>>, list), c.events)]

storeEventsToCache(list, covStart, covEnd, key) ==
    LET c == sharedEventsCache
        sameKey == c.key = key
    IN IF ~sameKey \/ c.start = NoDate \/ c.end = NoDate
       THEN [key |-> key, start |-> covStart, end |-> covEnd, events |-> list]
       ELSE [key |-> c.key,
             start |-> IF covStart < c.start THEN covStart ELSE c.start,
             end |-> IF covEnd > c.end THEN covEnd ELSE c.end,
             events |-> MapSetAll(MapSetAll(<<>>, c.events), list)]

(* a coverage test that compares the start of the range only *)
cacheCoversStartOnly(rangeStart, rangeEnd, key) ==
    IF sharedEventsCache.key # key THEN FALSE
    ELSE IF sharedEventsCache.start = NoDate \/ sharedEventsCache.end = NoDate THEN FALSE
    ELSE sharedEventsCache.start <= rangeStart

cacheCoversRange(rangeStart, rangeEnd, key) ==
    IF sharedEventsCache.key # key THEN FALSE
    ELSE IF sharedEventsCache.start = NoDate \/ sharedEventsCache.end = NoDate THEN FALSE
    ELSE sharedEventsCache.start <= rangeStart /\ sharedEventsCache.end >= rangeEnd

(* an open-ended event is asked to start inside the range *)
EventInRangeOpenNeedsStart(ev, rs, re) ==
    LET hasS == "start" \in DOMAIN ev
        hasE == "end" \in DOMAIN ev
        s == IF hasS THEN parseDate(ev.start) ELSE NaN
        e == IF hasE THEN parseDate(ev.end) ELSE NaN
    IN IF hasS /\ hasE THEN e # NaN /\ s # NaN /\ e >= rs /\ s < re
       ELSE IF hasS THEN s # NaN /\ s >= rs /\ s < re
       ELSE FALSE

(* the filter callback of eventsFromCache; a comparison with NaN is false *)
EventInRange(ev, rs, re) ==
    LET hasS == "start" \in DOMAIN ev
        hasE == "end" \in DOMAIN ev
        s == IF hasS THEN parseDate(ev.start) ELSE NaN
        e == IF hasE THEN parseDate(ev.end) ELSE NaN
    IN IF hasS /\ hasE THEN e # NaN /\ s # NaN /\ e >= rs /\ s < re
       ELSE IF hasS THEN s # NaN /\ s < re
       ELSE FALSE

(* a query that does not look at the key *)
eventsFromCacheAnyKey(rangeStart, rangeEnd, key) ==
    SelectSeq(sharedEventsCache.events,
              LAMBDA ev : EventInRange(ev, rangeStart, rangeEnd))

eventsFromCache(rangeStart, rangeEnd, key) ==
    IF sharedEventsCache.key # key THEN <<>>
    ELSE SelectSeq(sharedEventsCache.events,
                   LAMBDA ev : EventInRange(ev, rangeStart, rangeEnd))

(* a merge that takes the extendedProps of the changes as they are *)
MergedEventShallow(old, changes) == Spread(old, changes)

(* storage.js:185-188: { ...old, ...changes } with extendedProps merged *)
MergedEvent(old, changes) ==
    LET merged == Spread(old, changes)
        oldX == IF "extendedProps" \in DOMAIN old THEN old.extendedProps ELSE <<>>
        newX == IF "extendedProps" \in DOMAIN changes THEN changes.extendedProps ELSE <<>>
    IN IF "extendedProps" \in (DOMAIN old) \cup (DOMAIN changes)
       THEN Spread(merged, [extendedProps |-> Spread(oldX, newX)])
       ELSE merged

updateEventInCacheById(id, changes) ==
    LET list == sharedEventsCache.events
        idx == IndexOfId(list, id)
    IN IF idx = 0 THEN sharedEventsCache
       ELSE [sharedEventsCache EXCEPT
                !.events = [list EXCEPT ![idx] = MergedEvent(list[idx], changes)]]

(* what updateEventInCacheById returns: <<>> for null, <<updated>> otherwise *)
updateEventReturn(id, changes) ==
    LET list == sharedEventsCache.events
        idx == IndexOfId(list, id)
    IN IF idx = 0 THEN <<>> ELSE <<MergedEvent(list[idx], changes)>>

(* a removal that forgets the coverage window *)
removeEventDropsWindow(id) ==
    [sharedEventsCache EXCEPT
        !.events = SelectSeq(@, LAMBDA e : String(e.id) # String(id)),
        !.start = NoDate, !.end = NoDate]

removeEventFromCacheById(id) ==
    [sharedEventsCache EXCEPT
        !.events = SelectSeq(@, LAMBDA e : String(e.id) # String(id))]

(* an insert that does not look for the id *)
addEventAlways(ev) == [sharedEventsCache EXCEPT !.events = Append(@, ev)]

addEventToCache(ev) ==
    IF IndexOfId(sharedEventsCache.events, ev.id) # 0 THEN sharedEventsCache
    ELSE [sharedEventsCache EXCEPT !.events = Append(@, ev)]


(* ------------------------- the fetch coordinator ----------------------- *)
EmptyCache == [key |-> NoKey, start |-> NoDate, end |-> NoDate, events |-> <<>>]

Selections == {l \in SeqsUpTo(1..MaxDentistId, MaxDentistId) :
                 \A i, j \in 1..Len(l) : i # j => l[i] # l[j]}
Queries == {"", "x"}
Changes == {[color |-> "blue"], [extendedProps |-> [notes |-> "m"]]}
StringIds == {<<"s", String(e.id)>> : e \in EventPool}

(* storage.js:746-761: the padded coverage range of an invocation *)
PaddedRange(fetchInfo, override) ==
    IF override # NoOverride
    THEN <<startOfDay(override[1]), startOfDay(override[2])>>
    ELSE LET monthStart == startOfMonth(fetchInfo[1])
             endInc == fetchInfo[2] - TicksPerDay
             lastMonthStart == startOfMonth(endInc)
             monthEnd == startOfNextMonth(lastMonthStart)
         IN <<startOfDay(monthStart), startOfDay(monthEnd)>>

DedupKey(key, covStart, covEnd) == <<key, covStart, covEnd>>

(* a has() that never finds the entry *)
HasPendingNever(dedupKey) == FALSE

(* pendingEventsFetches.has(dedupKey) *)
HasPending(dedupKey) == dedupKey \in DOMAIN pendingEventsFetches

(* pendingEventsFetches.set(dedupKey, p) *)
SetPending(dedupKey, rid) ==
    [k \in (DOMAIN pendingEventsFetches) \cup {dedupKey} |->
        IF k = dedupKey THEN rid ELSE pendingEventsFetches[k]]

(* pendingEventsFetches.delete(dedupKey) *)
DeletePending(dedupKey) ==
    [k \in (DOMAIN pendingEventsFetches) \ {dedupKey} |-> pendingEventsFetches[k]]

(* success(eventsFromCache(fetchInfo.start, fetchInfo.end, key)) / failure(err) *)
SuccessAnswer(fetchInfo, key) ==
    [kind |-> "success", events |-> eventsFromCache(fetchInfo[1], fetchInfo[2], key)]
FailureAnswer == [kind |-> "failure"]

(* the pending map is looked up before the cache *)
SourceBranchPendingFirst(key, fetchInfo) ==
    LET cov == PaddedRange(fetchInfo, fetchMonthOverride)
    IN IF HasPending(DedupKey(key, cov[1], cov[2])) THEN "attach"
       ELSE IF cacheCoversRange(cov[1], cov[2], key) THEN "cache"
       ELSE "fetch"

(* storage.js:762-779: which of its three branches an invocation takes *)
SourceBranch(key, fetchInfo) ==
    LET cov == PaddedRange(fetchInfo, fetchMonthOverride)
    IN IF cacheCoversRange(cov[1], cov[2], key) THEN "cache"
       ELSE IF HasPending(DedupKey(key, cov[1], cov[2])) THEN "attach"
       ELSE "fetch"

(* storage.js:763-768: the answer of the cache branch, given at once *)
CacheBranchAnswer(key, fetchInfo) == SuccessAnswer(fetchInfo, key)

(* events: function (fetchInfo, success, failure), storage.js:743-798; ops is
   the number of side operations counted before the source is asked *)
EventsSource(key, fetchInfo, ops) ==
    LET usedOverride == fetchMonthOverride # NoOverride
        cov == PaddedRange(fetchInfo, fetchMonthOverride)
        dedupKey == DedupKey(key, cov[1], cov[2])
        branch == SourceBranch(key, fetchInfo)
    IN CASE branch = "cache" ->
              /\ sideOps' = ops
              /\ UNCHANGED <<pendingEventsFetches, inflight, waiters, nextRid>>
         [] branch = "attach" ->
              /\ ops < MaxSideOps
              /\ sideOps' = ops + 1
              /\ waiters' = Append(waiters, [rid |-> pendingEventsFetches[dedupKey],
                                             reqStart |-> fetchInfo[1],
                                             reqEnd |-> fetchInfo[2]])
              /\ UNCHANGED <<pendingEventsFetches, inflight, nextRid>>
         [] branch = "fetch" ->
              /\ nextRid <= MaxFetches
              /\ sideOps' = ops
              /\ inflight' = inflight \cup
                   {[rid |-> nextRid, key |-> key, covStart |-> cov[1], covEnd |-> cov[2],
                     reqStart |-> fetchInfo[1], reqEnd |-> fetchInfo[2],
                     usedOverride |-> usedOverride]}
              /\ pendingEventsFetches' = SetPending(dedupKey, nextRid)
              /\ nextRid' = nextRid + 1
              /\ UNCHANGED waiters

(* the callbacks attached to the promise of request rid (storage.js:771-778);
   each closes over the key of its invocation, which is the request's key *)
WaitersOf(rid) == SelectSeq(waiters, LAMBDA w : w.rid = rid)

(* the promise p an attached caller waits on, storage.js:785-795:
   fetch(...).then(...).then(...) is fulfilled when the request succeeded and
   rejected otherwise; .catch(handler) with a handler that returns gives a
   fulfilled promise either way; .finally(...) passes the state on *)
Catch(state) == "fulfilled"
PromiseP(ok) == Catch(IF ok THEN "fulfilled" ELSE "rejected")

(* storage.js:771-777: .then(() => success(eventsFromCache(...))).catch(failure)
   on the pending promise *)
AttachedAnswer(w, r, ok) ==
    IF PromiseP(ok) = "fulfilled"
    THEN SuccessAnswer(<<w.reqStart, w.reqEnd>>, r.key)
    ELSE FailureAnswer

(* storage.js:788-794: the second .then on success, the .catch on failure *)
IssuerAnswer(r, ok) ==
    IF ok THEN SuccessAnswer(<<r.reqStart, r.reqEnd>>, r.key) ELSE FailureAnswer

(* a .finally that forgets the pending entry *)
FinallyKeepsPending(r) ==
    /\ pendingEventsFetches' = pendingEventsFetches
    /\ fetchMonthOverride' = IF r.usedOverride THEN NoOverride ELSE fetchMonthOverride

(* .finally(...), storage.js:795 *)
Finally(r) ==
    /\ pendingEventsFetches' = DeletePending(DedupKey(r.key, r.covStart, r.covEnd))
    /\ fetchMonthOverride' = IF r.usedOverride THEN NoOverride ELSE fetchMonthOverride

(* the ranges absorbed into the present window: storeEventsToCache starts a new
   window when it replaces the cache and widens the window otherwise *)
FetchedAfter(r) ==
    IF sharedEventsCache.key # r.key \/ sharedEventsCache.start = NoDate
       \/ sharedEventsCache.end = NoDate
    THEN {<<r.covStart, r.covEnd>>}
    ELSE fetched \cup {<<r.covStart, r.covEnd>>}

(* the response of request r arrives with status OK and the JSON array list *)
Resolved(r, list) ==
    /\ r \in inflight
    /\ sharedEventsCache' = storeEventsToCache(list, r.covStart, r.covEnd, r.key)
    /\ fetched' = FetchedAfter(r)
    /\ Finally(r)
    /\ inflight' = inflight \ {r}
    /\ waiters' = SelectSeq(waiters, LAMBDA w : w.rid # r.rid)
    /\ UNCHANGED <<selectedDentists, includeUnassigned, searchQuery, nextRid, sideOps>>
    /\ UNCHANGED <<adapterVars, dentistVars, searchVars>>

FetchResolves(r, list) ==
    /\ Resolved(r, list)
    /\ lastOp' = [name |-> "resolve"]

(* a failure that stores an empty list for the range asked *)
FetchFailsStoresEmpty(r) ==
    /\ r \in inflight
    /\ sharedEventsCache' = storeEventsToCache(<<>>, r.covStart, r.covEnd, r.key)
    /\ Finally(r)
    /\ inflight' = inflight \ {r}
    /\ waiters' = SelectSeq(waiters, LAMBDA w : w.rid # r.rid)
    /\ lastOp' = [name |-> "reject"]
    /\ UNCHANGED <<selectedDentists, includeUnassigned, searchQuery, nextRid, sideOps,
                   fetched>>
    /\ UNCHANGED <<adapterVars, dentistVars, searchVars>>

(* the request rejects, answers a non-OK status or an unparseable body *)
FetchFails(r) ==
    /\ r \in inflight
    /\ Finally(r)
    /\ inflight' = inflight \ {r}
    /\ waiters' = SelectSeq(waiters, LAMBDA w : w.rid # r.rid)
    /\ lastOp' = [name |-> "reject"]
    /\ UNCHANGED <<selectedDentists, includeUnassigned, searchQuery, sharedEventsCache,
                   nextRid, sideOps, fetched>>
    /\ UNCHANGED <<adapterVars, dentistVars, searchVars>>

(* ------------------------------ user tasks ----------------------------- *)
NoOp == [name |-> "none"]

(* prev / next / gotoDate on the primary calendar: the events source is asked
   for the new visible range v, then calendar.on('datesSet') clears the
   override (part_000:2031-2035) *)
Navigate(v) ==
    /\ EventsSource(buildCacheKey, v, sideOps)
    /\ fetchMonthOverride' = NoOverride
    /\ UNCHANGED <<selectedDentists, includeUnassigned, searchQuery, sharedEventsCache,
                   fetched>>
    /\ lastOp' = NoOp
    /\ UNCHANGED <<adapterVars, dentistVars, searchVars>>

(* calendar.refetchEvents() for the visible range v: refetchMainDebounced
   (part_000:1848), the initial render, the end of a hard refresh *)
Refetch(v) ==
    /\ EventsSource(buildCacheKey, v, sideOps)
    /\ UNCHANGED <<selectedDentists, includeUnassigned, searchQuery, sharedEventsCache,
                   fetchMonthOverride, fetched>>
    /\ lastOp' = NoOp
    /\ UNCHANGED <<adapterVars, dentistVars, searchVars>>

(* mini.on('datesSet') after the user moved the mini to month m (its grid key
   differs from __lastMiniGridKey), part_000:2045-2058 *)
MiniDatesSet(m) ==
    /\ fetchMonthOverride # m
    /\ fetchMonthOverride' = m
    /\ UNCHANGED <<selectedDentists, includeUnassigned, searchQuery, sharedEventsCache,
                   pendingEventsFetches, inflight, waiters, nextRid, sideOps, fetched>>
    /\ lastOp' = [name |-> "miniDatesSet"]
    /\ UNCHANGED <<adapterVars, dentistVars, searchVars>>

(* the mini's events source, part_000:1877-1883: it answers from the cache and
   changes nothing *)
MiniAnswer(m) == SuccessAnswer(m, buildCacheKey)

MiniRead(m) ==
    /\ MiniAnswer(m).kind = "success"
    /\ lastOp' = NoOp
    /\ UNCHANGED <<selectedDentists, includeUnassigned, searchQuery, sharedEventsCache,
                   pendingEventsFetches, inflight, waiters, fetchMonthOverride, nextRid,
                   sideOps, fetched>>
    /\ UNCHANGED <<adapterVars, dentistVars, searchVars>>

(* a filter control changed: the new value is saved and the calendar refetches *)
FilterChange(key, v) ==
    /\ sideOps < MaxSideOps
    /\ EventsSource(key, v, sideOps + 1)
    /\ UNCHANGED <<sharedEventsCache, fetchMonthOverride, fetched>>
    /\ lastOp' = NoOp
    /\ UNCHANGED <<adapterVars, dentistVars, searchVars>>

(* dentist checkbox change, storage.js:1070-1077 / 1100-1105 *)
SaveSelectedDentists(ids, v) ==
    /\ ids # selectedDentists
    /\ selectedDentists' = ids
    /\ FilterChange(CacheKeyOf(ids, includeUnassigned, searchQuery), v)
    /\ UNCHANGED <<includeUnassigned, searchQuery>>

(* onToggleChange, storage.js:1041-1045 *)
SaveIncludeUnassigned(val, v) ==
    /\ val # includeUnassigned
    /\ includeUnassigned' = val
    /\ FilterChange(CacheKeyOf(selectedDentists, val, searchQuery), v)
    /\ UNCHANGED <<selectedDentists, searchQuery>>

(* wireSearchMenu: apply / clear, storage.js:1124-1126 *)
SaveSearchQuery(q, v) ==
    /\ q # searchQuery
    /\ searchQuery' = q
    /\ FilterChange(CacheKeyOf(selectedDentists, includeUnassigned, q), v)
    /\ UNCHANGED <<selectedDentists, includeUnassigned>>

(* what a point mutation the server confirmed does to the page: the cache is
   updated in place, nothing else moves *)
PointEffect(cache) ==
    /\ sideOps < MaxSideOps
    /\ sideOps' = sideOps + 1
    /\ sharedEventsCache' = cache
    /\ UNCHANGED <<selectedDentists, includeUnassigned, searchQuery, pendingEventsFetches,
                   inflight, waiters, fetchMonthOverride, nextRid, fetched>>
    /\ UNCHANGED <<adapterVars, dentistVars, searchVars>>

(* a point mutation the server confirmed, mirrored into the cache *)
PointOp(cache) ==
    /\ PointEffect(cache)
    /\ lastOp' = NoOp

(* POST /add_event answered success, storage.js:878-885 *)
AddEvent(ev) == PointOp(addEventToCache(ev))

(* POST /update_event_* answered success, storage.js:661, 919, 994 *)
UpdateEvent(id, changes) == PointOp(updateEventInCacheById(id, changes))

(* POST /delete_event answered success, storage.js:651-654 *)
DeleteEvent(id) ==
    /\ PointEffect(removeEventFromCacheById(id))
    /\ lastOp' = [name |-> "delete", id |-> id,
                  found |-> \E i \in 1..Len(sharedEventsCache.events) :
                               String(sharedEventsCache.events[i].id) = String(id)]

(* hardRefreshBtn click, part_000:2486-2498 *)
HardRefresh ==
    /\ sharedEventsCache # EmptyCache
    /\ sharedEventsCache' = EmptyCache
    /\ fetched' = {}
    /\ UNCHANGED <<selectedDentists, includeUnassigned, searchQuery, pendingEventsFetches,
                   inflight, waiters, fetchMonthOverride, nextRid, sideOps>>
    /\ lastOp' = NoOp
    /\ UNCHANGED <<adapterVars, dentistVars, searchVars>>

(* --------------------------- the specification ------------------------- *)
CalendarInit ==
    /\ selectedDentists = <<>>
    /\ includeUnassigned = FALSE
    /\ searchQuery = ""
    /\ sharedEventsCache = EmptyCache
    /\ pendingEventsFetches = <<>>
    /\ inflight = {}
    /\ waiters = <<>>
    /\ fetchMonthOverride = NoOverride
    /\ nextRid = 1
    /\ sideOps = 0
    /\ fetched = {}
    /\ lastOp = NoOp

Init == CalendarInit /\ AdapterInit /\ DentistInit /\ SearchInit

Settle ==
    \/ \E r \in inflight, list \in ServerLists : FetchResolves(r, list)
    \/ \E r \in inflight : FetchFails(r)

Next ==
    \/ \E v \in Views : Navigate(v)
    \/ \E v \in Views : Refetch(v)
    \/ \E m \in MiniMonths : MiniDatesSet(m)
    \/ \E m \in MiniMonths : MiniRead(m)
    \/ \E ids \in Selections, v \in Views : SaveSelectedDentists(ids, v)
    \/ \E val \in BOOLEAN, v \in Views : SaveIncludeUnassigned(val, v)
    \/ \E q \in Queries, v \in Views : SaveSearchQuery(q, v)
    \/ Settle
    \/ \E ev \in EventPool : AddEvent(ev)
    \/ \E id \in StringIds, ch \in Changes : UpdateEvent(id, ch)
    \/ \E id \in StringIds : DeleteEvent(id)
    \/ HardRefresh

Spec == Init /\ [][Next]_vars

(* every request the browser sent settles: the network answers or times out *)
FairSpec == Spec /\ WF_vars(Settle)

(* ------------------- the cache operations on their own ------------------ *)
(* the operations of storage.js:138-217 applied in any order to arguments drawn
   from small sets; lastOp keeps the operation, its arguments and the cache it
   was applied to *)
CacheKeys == {CacheKeyOf(<<>>, FALSE, q) : q \in Queries}

CacheFrame ==
    /\ UNCHANGED <<selectedDentists, includeUnassigned, searchQuery, pendingEventsFetches,
                   inflight, waiters, fetchMonthOverride, nextRid, sideOps, fetched>>
    /\ UNCHANGED <<adapterVars, dentistVars, searchVars>>

Absorb(list, range, key) ==
    /\ sharedEventsCache' = storeEventsToCache(list, range[1], range[2], key)
    /\ lastOp' = [name |-> "absorb", before |-> sharedEventsCache, list |-> list,
                  covStart |-> range[1], covEnd |-> range[2], key |-> key]
    /\ CacheFrame

Insert(ev) ==
    /\ sharedEventsCache' = addEventToCache(ev)
    /\ lastOp' = [name |-> "insert", before |-> sharedEventsCache, ev |-> ev]
    /\ CacheFrame

Mutate(id, changes) ==
    /\ sharedEventsCache' = updateEventInCacheById(id, changes)
    /\ lastOp' = [name |-> "mutate", before |-> sharedEventsCache, id |-> id,
                  changes |-> changes, returned |-> updateEventReturn(id, changes)]
    /\ CacheFrame

Remove(id) ==
    /\ sharedEventsCache' = removeEventFromCacheById(id)
    /\ lastOp' = [name |-> "remove", before |-> sharedEventsCache, id |-> id]
    /\ CacheFrame

Reset ==
    /\ sharedEventsCache' = EmptyCache
    /\ lastOp' = [name |-> "reset", before |-> sharedEventsCache]
    /\ CacheFrame

CacheNext ==
    \/ \E list \in ServerLists, range \in MiniMonths, key \in CacheKeys :
          Absorb(list, range, key)
    \/ \E ev \in EventPool : Insert(ev)
    \/ \E id \in StringIds, ch \in Changes : Mutate(id, ch)
    \/ \E id \in StringIds : Remove(id)
    \/ Reset

CacheSpec == Init /\ [][CacheNext]_vars

(* ---------------------- absorbs of arbitrary lists ---------------------- *)
(* storeEventsToCache applied to whatever array the response holds, an id
   repeated in it included *)
AnyLists == SeqsUpTo(EventPool, MaxAbsorbLen)

AbsorbNext ==
    \E list \in AnyLists, range \in MiniMonths, key \in CacheKeys :
        Absorb(list, range, key)

AbsorbSpec == Init /\ [][AbsorbNext]_vars

(* --------------------------- queries on their own ----------------------- *)
(* eventsFromCache applied to caches holding one or two events of every shape
   (both separators, open-ended, without start, with an unparseable date) *)
QueryTimes == 0..MaxQueryTime

QueryEvents(id) ==
    {[id |-> id, start |-> <<x[1], x[2]>>, end |-> <<"T", x[3]>>] :
        x \in {y \in {"T", " "} \X QueryTimes \X QueryTimes : y[2] <= y[3]}}
    \cup {[id |-> id, start |-> <<"T", s>>] : s \in QueryTimes}
    \cup {[id |-> id, title |-> "A"], [id |-> id, end |-> <<"T", 1>>],
          [id |-> id, start |-> <<"?", 1>>, end |-> <<"T", 2>>],
          [id |-> id, start |-> <<"T", 1>>, end |-> <<"?", 2>>],
          [id |-> id, start |-> <<"?", 1>>]}

QueryCaches ==
    {[key |-> CacheKeyOf(<<>>, FALSE, ""), start |-> 0, end |-> TicksPerMonth,
      events |-> l] :
        l \in {<<a>> : a \in QueryEvents(<<"n", 1>>)}
              \cup {<<a, b>> : a \in QueryEvents(<<"n", 1>>), b \in QueryEvents(<<"n", 2>>)}}

QueryRanges ==
    {r \in (0..(MaxQueryTime + 1)) \X (0..(MaxQueryTime + 1)) : r[1] < r[2]}

QueryInit ==
    /\ selectedDentists = <<>>
    /\ includeUnassigned = FALSE
    /\ searchQuery = ""
    /\ sharedEventsCache \in QueryCaches
    /\ pendingEventsFetches = <<>>
    /\ inflight = {}
    /\ waiters = <<>>
    /\ fetchMonthOverride = NoOverride
    /\ nextRid = 1
    /\ sideOps = 0
    /\ fetched = {<<0, TicksPerMonth>>}
    /\ lastOp = NoOp
    /\ AdapterInit /\ DentistInit /\ SearchInit

Query(range, key) ==
    /\ lastOp' = [name |-> "query", rangeStart |-> range[1], rangeEnd |-> range[2],
                  key |-> key, result |-> eventsFromCache(range[1], range[2], key)]
    /\ UNCHANGED sharedEventsCache
    /\ CacheFrame

QueryNext == \E range \in QueryRanges, key \in CacheKeys : Query(range, key)

QuerySpec == QueryInit /\ [][QueryNext]_vars

(* ------------------------------- claims -------------------------------- *)
DedupKeyOf(r) == DedupKey(r.key, r.covStart, r.covEnd)

(* C1, first half: no two requests in flight have the same de-duplication key
   (filter key, padded coverage start, padded coverage end) *)
C1_OnePerDedupKey ==
    \A r1, r2 \in inflight : DedupKeyOf(r1) = DedupKeyOf(r2) => r1 = r2

(* the task of this step asked the events source for range v, under the filter
   key its handler left in storage *)
Invocation(v) ==
    \/ Navigate(v)
    \/ Refetch(v)
    \/ \E ids \in Selections : SaveSelectedDentists(ids, v)
    \/ \E val \in BOOLEAN : SaveIncludeUnassigned(val, v)
    \/ \E q \in Queries : SaveSearchQuery(q, v)

(* C1, second half: a task that asks the events source for an uncovered range
   whose de-duplication key is in the pending-fetch map sends no request: the
   caller is attached to the pending one *)
C1_AttachStep ==
    \A v \in Views :
        \A key \in {buildCacheKey'}, cov \in {PaddedRange(v, fetchMonthOverride)} :
           (/\ ~cacheCoversRange(cov[1], cov[2], key)
            /\ HasPending(DedupKey(key, cov[1], cov[2]))
            /\ Invocation(v))
           => /\ inflight' = inflight
              /\ pendingEventsFetches' = pendingEventsFetches
              /\ Len(waiters') = Len(waiters) + 1

(* C1: over every interleaving of invocations and settlements at most one
   /events request is in flight per de-duplication key, and an invocation whose
   key is pending attaches instead of sending a second request *)
C1_AtMostOneInFlight == []C1_OnePerDedupKey /\ [][C1_AttachStep]_vars

(* C1 witness: a caller is attached to the one request in flight for its key *)
C1_Witness ==
    /\ waiters # <<>>
    /\ \E r \in inflight : r.rid = waiters[1].rid /\ HasPending(DedupKeyOf(r))


(* C2: every caller attached to a request in flight is answered like the caller
   that issued it: when the request succeeds, with success computed by
   eventsFromCache over the cache after the absorb; when it fails, with the
   failure, never with a success *)
C2_Step ==
    \A r \in inflight : \A w \in {waiters[i] : i \in 1..Len(waiters)} :
        w.rid = r.rid =>
            /\ (\E list \in ServerLists : FetchResolves(r, list)) =>
                   /\ (IssuerAnswer(r, TRUE))'.kind = "success"
                   /\ (AttachedAnswer(w, r, TRUE))' =
                          [kind |-> "success",
                           events |-> (eventsFromCache(w.reqStart, w.reqEnd, r.key))']
            /\ FetchFails(r) =>
                   /\ (IssuerAnswer(r, FALSE))'.kind = "failure"
                   /\ (AttachedAnswer(w, r, FALSE))'.kind = "failure"

C2_AttachedSameOutcome == [][C2_Step]_vars


(* C3: the events source answers a requested range from the cache, without a
   fetch, only if the stored key is the invocation's key and the stored
   coverage interval contains the whole requested range *)
C3_CacheReadOnlyIfCovered ==
    \A v \in Views :
        SourceBranch(buildCacheKey, v) = "cache" =>
            /\ sharedEventsCache.key = buildCacheKey
            /\ sharedEventsCache.start # NoDate
            /\ sharedEventsCache.end # NoDate
            /\ sharedEventsCache.start <= v[1]
            /\ sharedEventsCache.end >= v[2]


(* C4: an invocation of the primary events source whose padded range is covered
   under its filter key is answered at once with
   eventsFromCache(requested start, requested end, key); no request is sent
   and the pending-fetch map gets no entry *)
C4_Step ==
    \A v \in Views :
        \A key \in {buildCacheKey'}, cov \in {PaddedRange(v, fetchMonthOverride)} :
           (/\ cacheCoversRange(cov[1], cov[2], key)
            /\ Invocation(v))
           => /\ CacheBranchAnswer(key, v) =
                    [kind |-> "success", events |-> eventsFromCache(v[1], v[2], key)]
              /\ inflight' = inflight
              /\ nextRid' = nextRid
              /\ pendingEventsFetches' = pendingEventsFetches
              /\ waiters' = waiters

C4_CacheHitAnswersAtOnce == [][C4_Step]_vars

(* C4 witness: a covered range is asked for while a request for the same
   de-duplication key is still pending, and the cache has events to answer *)
C4_Witness ==
    \E v \in Views :
        LET cov == PaddedRange(v, fetchMonthOverride)
        IN /\ cacheCoversRange(cov[1], cov[2], buildCacheKey)
           /\ HasPending(DedupKey(buildCacheKey, cov[1], cov[2]))
           /\ CacheBranchAnswer(buildCacheKey, v).events # <<>>

(* C5, safety: every entry of the pending-fetch map belongs to a request that
   has not settled *)
C5_NoStaleEntry ==
    \A dk \in DOMAIN pendingEventsFetches :
        \E r \in inflight : r.rid = pendingEventsFetches[dk] /\ DedupKeyOf(r) = dk

(* C5: an entry of the pending-fetch map is removed when its request settles,
   on success and on failure, and when every request sent settles the map
   becomes empty *)
C5_PendingCleared ==
    /\ []C5_NoStaleEntry
    /\ (pendingEventsFetches # <<>>) ~> (pendingEventsFetches = <<>>)

(* C5 witness: a request failed and the map is empty again *)
C5_Witness ==
    /\ lastOp.name = "reject"
    /\ nextRid > 1
    /\ pendingEventsFetches = <<>>

(* C6: a failed fetch leaves key, coverage and events of the cache as they
   were, and its caller is given a failure *)
C6_Step ==
    \A r \in inflight :
        FetchFails(r) =>
            /\ sharedEventsCache' = sharedEventsCache
            /\ (IssuerAnswer(r, FALSE))'.kind = "failure"

C6_FailureKeepsCache == [][C6_Step]_vars

(* C6 witness: a request failed while the cache held a window with events *)
C6_Witness ==
    /\ lastOp.name = "reject"
    /\ sharedEventsCache.key # NoKey
    /\ sharedEventsCache.events # <<>>


(* C7: whatever absorb, insert, mutate and remove operations came before, a
   query under a key that is not the stored key returns the empty list and
   the cache covers no range under that key *)
C7_KeyIsolation ==
    \A k2 \in CacheKeys \cup {NoKey}, range \in MiniMonths \cup Views :
        k2 # sharedEventsCache.key =>
            /\ eventsFromCache(range[1], range[2], k2) = <<>>
            /\ ~cacheCoversRange(range[1], range[2], k2)

(* C7 witness: data was absorbed under one key; a range it covers and has
   events in is empty and uncovered under another key *)
C7_Witness ==
    /\ lastOp.name = "absorb"
    /\ \E range \in MiniMonths, k2 \in CacheKeys :
          /\ k2 # lastOp.key
          /\ cacheCoversRange(range[1], range[2], lastOp.key)
          /\ eventsFromCache(range[1], range[2], lastOp.key) # <<>>
          /\ eventsFromCache(range[1], range[2], k2) = <<>>

(* C8: when the cache holds a coverage window [start, end) under a key, every
   instant of the window lies in a range that was fetched and absorbed under
   that key since the window was last replaced *)
C8_CoverageWasFetched ==
    (sharedEventsCache.start # NoDate /\ sharedEventsCache.end # NoDate) =>
        \A t \in sharedEventsCache.start..(sharedEventsCache.end - 1) :
            \E range \in fetched : range[1] <= t /\ t < range[2]


IdsOf(list) == {String(list[i].id) : i \in 1..Len(list)}
WithId(list, id) == {list[i] : i \in {j \in 1..Len(list) : String(list[j].id) = id}}

(* C9: absorb under another key, or into a cache without coverage, leaves
   exactly the key, the range and the list given; absorb under the stored key
   keeps the key, makes every incoming event the stored event of its id, keeps
   every stored event whose id is not incoming, holds each id once, and widens
   the coverage to [min(old start, covStart), max(old end, covEnd)) *)
C9_AbsorbSemantics ==
    lastOp.name = "absorb" =>
        LET b == lastOp.before
            c == sharedEventsCache
        IN IF b.key # lastOp.key \/ b.start = NoDate \/ b.end = NoDate
           THEN c = [key |-> lastOp.key, start |-> lastOp.covStart,
                     end |-> lastOp.covEnd, events |-> lastOp.list]
           ELSE /\ c.key = b.key
                /\ c.start = (IF b.start <= lastOp.covStart THEN b.start ELSE lastOp.covStart)
                /\ c.end = (IF b.end >= lastOp.covEnd THEN b.end ELSE lastOp.covEnd)
                /\ IdsOf(c.events) = IdsOf(b.events) \cup IdsOf(lastOp.list)
                /\ Len(c.events) = Cardinality(IdsOf(c.events))
                /\ \A id \in IdsOf(lastOp.list) :
                       WithId(c.events, id) = WithId(lastOp.list, id)
                /\ \A id \in IdsOf(b.events) \ IdsOf(lastOp.list) :
                       WithId(c.events, id) = WithId(b.events, id)

(* C9 witness: an absorb under the stored key overwrote one stored event, kept
   another and widened the coverage *)
C9_Witness ==
    /\ lastOp.name = "absorb"
    /\ lastOp.before.key = lastOp.key
    /\ lastOp.before.start # NoDate
    /\ IdsOf(lastOp.before.events) \cap IdsOf(lastOp.list) # {}
    /\ IdsOf(lastOp.before.events) \ IdsOf(lastOp.list) # {}
    /\ lastOp.before.events[1] \notin {sharedEventsCache.events[i] :
                                          i \in 1..Len(sharedEventsCache.events)}
    /\ sharedEventsCache.end > lastOp.before.end

(* B's fields over A's, field by field, extendedProps merged *)
FieldMerge(a, b) ==
    LET merged == Spread(a, b)
        ax == IF "extendedProps" \in DOMAIN a THEN a.extendedProps ELSE <<>>
        bx == IF "extendedProps" \in DOMAIN b THEN b.extendedProps ELSE <<>>
    IN IF "extendedProps" \in (DOMAIN a) \cup (DOMAIN b)
       THEN Spread(merged, [extendedProps |-> Spread(ax, bx)])
       ELSE merged

(* C10: after a list with event A of id 1 was absorbed, absorbing under the
   same key a list with event B of id 1 leaves exactly one event of id 1: B's
   fields merged over A's field by field, its extendedProps the merge of A's
   and B's *)
C10_AbsorbMergesFields ==
    (/\ lastOp.name = "absorb"
     /\ lastOp.before.key = lastOp.key
     /\ lastOp.before.start # NoDate
     /\ lastOp.before.end # NoDate) =>
        \A a \in WithId(lastOp.before.events, 1), b \in WithId(lastOp.list, 1) :
            WithId(sharedEventsCache.events, 1) = {FieldMerge(a, b)}


(* the cache after the absorb that was just made is made once more *)
AbsorbedAgain ==
    storeEventsToCache(lastOp.list, lastOp.covStart, lastOp.covEnd, lastOp.key)

(* C11 as stated: for every event list, key and range, absorbing the list a
   second time under the same key and range leaves the cache, and so every
   query result, as the first absorb left it *)
C11_AbsorbIdempotent ==
    lastOp.name = "absorb" => AbsorbedAgain = sharedEventsCache

(* C11 amended: for every event list whose ids are pairwise distinct, key and
   range, absorbing the list a second time under the same key and range leaves
   the cache as the first absorb left it *)
C11_AbsorbIdempotentDistinctIds ==
    (lastOp.name = "absorb" /\ DistinctIds(lastOp.list)) =>
        AbsorbedAgain = sharedEventsCache

(* C11 witness: a list of two events was absorbed twice in a row under the
   stored key and the second absorb changed nothing *)
C11_Witness ==
    /\ lastOp.name = "absorb"
    /\ Len(lastOp.list) = 2
    /\ DistinctIds(lastOp.list)
    /\ lastOp.before = sharedEventsCache
    /\ lastOp.before.key = lastOp.key
    /\ lastOp.before.start = lastOp.covStart
    /\ lastOp.before.end = lastOp.covEnd

(* every range [rs, re) of the calendar *)
AllRanges ==
    {<<rs, re>> \in (0..(NumMonths * TicksPerMonth)) \X (0..(NumMonths * TicksPerMonth)) :
        rs < re}

(* C12: cacheCoversRange(rs, re, key) is true exactly when the stored key is
   key, a coverage window exists, coverage start <= rs and coverage end >= re;
   it is false for every range that starts before or ends after the window,
   and a cache that never absorbed anything, or was reset, covers nothing *)
C12_CoversExactly ==
    LET c == sharedEventsCache
        hasWindow == c.start # NoDate /\ c.end # NoDate
    IN \A range \in AllRanges, key \in CacheKeys \cup {NoKey} :
          /\ cacheCoversRange(range[1], range[2], key) <=>
                (c.key = key /\ hasWindow /\ c.start <= range[1] /\ c.end >= range[2])
          /\ (hasWindow /\ (range[1] < c.start \/ range[2] > c.end)) =>
                ~cacheCoversRange(range[1], range[2], key)
          /\ ~hasWindow => ~cacheCoversRange(range[1], range[2], key)

(* C12 witness: after a point operation a window is stored; the cache covers
   it under the stored key and covers no range that overruns it by a tick at
   either side *)
C12_Witness ==
    LET c == sharedEventsCache
    IN /\ c.start # NoDate /\ c.start > 0 /\ c.end < NumMonths * TicksPerMonth
       /\ cacheCoversRange(c.start, c.end, c.key)
       /\ ~cacheCoversRange(c.start - 1, c.end, c.key)
       /\ ~cacheCoversRange(c.start, c.end + 1, c.key)
       /\ lastOp.name \in {"insert", "mutate", "remove"}

(* a date string that names an instant, and the instant *)
IsDate(s) == s[1] \in {"T", " "}
Instant(s) == s[2]

(* C13: what the claim asks of a cached event for the range [rs, re) *)
InQueryRange(ev, rs, re) ==
    IF "start" \in DOMAIN ev /\ "end" \in DOMAIN ev
    THEN /\ IsDate(ev.start) /\ IsDate(ev.end)
         /\ Instant(ev.end) >= rs /\ Instant(ev.start) < re
    ELSE IF "start" \in DOMAIN ev
    THEN IsDate(ev.start) /\ Instant(ev.start) < re
    ELSE FALSE

(* C13: a query under the stored key returns exactly the cached events, in
   their order, with end >= rangeStart and start < rangeEnd when they have both
   dates, with start < rangeEnd when they have only a start, and never an event
   without a start *)
C13_QueryExactly ==
    (lastOp.name = "query" /\ lastOp.key = sharedEventsCache.key) =>
        lastOp.result =
            SelectSeq(sharedEventsCache.events,
                      LAMBDA ev : InQueryRange(ev, lastOp.rangeStart, lastOp.rangeEnd))

(* C13 witness: a query returned an open-ended event that starts before the
   range and left out an event without a start *)
C13_Witness ==
    /\ lastOp.name = "query"
    /\ lastOp.key = sharedEventsCache.key
    /\ Len(sharedEventsCache.events) = 2
    /\ Len(lastOp.result) = 1
    /\ DOMAIN lastOp.result[1] = {"id", "start"}
    /\ lastOp.result[1].start[2] < lastOp.rangeStart
    /\ "start" \notin DOMAIN sharedEventsCache.events[1]

(* C14: an event whose end is the start of the range, and which starts before
   it, is not in the result of the query; an event that overlaps the range is *)
C14_EndExclusive ==
    (lastOp.name = "query" /\ lastOp.key = sharedEventsCache.key) =>
        \A i \in 1..Len(sharedEventsCache.events) :
            LET ev == sharedEventsCache.events[i]
                returned == \E j \in 1..Len(lastOp.result) : lastOp.result[j] = ev
            IN (/\ DOMAIN ev = {"id", "start", "end"}
                /\ IsDate(ev.start) /\ IsDate(ev.end)) =>
                   /\ (Instant(ev.end) = lastOp.rangeStart
                       /\ Instant(ev.start) < lastOp.rangeStart) => ~returned
                   /\ (Instant(ev.start) < lastOp.rangeEnd
                       /\ Instant(ev.end) > lastOp.rangeStart) => returned

IndicesOf(list, id) == {i \in 1..Len(list) : String(list[i].id) = String(id)}

(* C15: updateEventInCacheById(id, changes) replaces, in place, the cached
   event whose id has the same string by the shallow merge of the event and
   the changes, its extendedProps being the old ones with the new ones merged
   over them; it leaves every other event, key and coverage alone and returns
   the updated event; when no event has the id it returns null and the cache
   is unchanged *)
C15_MutateSemantics ==
    lastOp.name = "mutate" =>
        LET b == lastOp.before
            c == sharedEventsCache
            hits == IndicesOf(b.events, lastOp.id)
        IN IF hits = {}
           THEN lastOp.returned = <<>> /\ c = b
           ELSE \E i \in hits :
                   /\ \A j \in hits : i <= j
                   /\ c.key = b.key /\ c.start = b.start /\ c.end = b.end
                   /\ Len(c.events) = Len(b.events)
                   /\ \A j \in 1..Len(b.events) : j # i => c.events[j] = b.events[j]
                   /\ c.events[i] = FieldMerge(b.events[i], lastOp.changes)
                   /\ lastOp.returned = <<c.events[i]>>

(* C15 witness: the changes named one extendedProps key of the second cached
   event; its other extendedProps key is still there and the first event is
   as it was *)
C15_Witness ==
    /\ lastOp.name = "mutate"
    /\ "extendedProps" \in DOMAIN lastOp.changes
    /\ lastOp.returned # <<>>
    /\ Len(sharedEventsCache.events) = 2
    /\ lastOp.returned[1] = sharedEventsCache.events[2]
    /\ DOMAIN lastOp.returned[1].extendedProps = {"notes", "profissional_id"}
    /\ DOMAIN lastOp.before.events[2].extendedProps = {"profissional_id"}

(* C16: addEventToCache appends the event when no cached event has its id and
   changes nothing when one has; after an insert, and after an absorb that
   follows one, the cache holds at most one event of each id *)
C16_InsertOnce ==
    LET b == lastOp.before
        c == sharedEventsCache
    IN /\ lastOp.name = "insert" =>
            IF IndicesOf(b.events, lastOp.ev.id) # {}
            THEN c = b
            ELSE /\ c = [b EXCEPT !.events = Append(b.events, lastOp.ev)]
                 /\ Cardinality(IndicesOf(c.events, lastOp.ev.id)) = 1
       /\ (lastOp.name = "absorb" /\ b.key = lastOp.key) =>
            \A ev \in EventPool : Cardinality(IndicesOf(c.events, ev.id)) <= 1

(* C16 witness: an event was inserted into a cache that held an event of
   another id, fetched before, and is now its last entry, once *)
C16_Witness ==
    /\ lastOp.name = "insert"
    /\ lastOp.before.start # NoDate
    /\ Len(lastOp.before.events) = 1
    /\ IndicesOf(lastOp.before.events, lastOp.ev.id) = {}
    /\ Len(sharedEventsCache.events) = 2
    /\ sharedEventsCache.events[2] = lastOp.ev
    /\ Cardinality(IndicesOf(sharedEventsCache.events, lastOp.ev.id)) = 1

(* C17: whatever the order of absorb, insert, mutate, remove and reset, no two
   cached events have ids with the same string; every absorbed list has
   pairwise distinct ids *)
C17_UniqueIds ==
    LET list == sharedEventsCache.events
    IN \A i, j \in 1..Len(list) :
          String(list[i].id) = String(list[j].id) => i = j

(* C17 witness: the cache holds two events after an insert was refused for
   an id that is already there *)
C17_Witness ==
    /\ lastOp.name = "insert"
    /\ Len(sharedEventsCache.events) = 2
    /\ sharedEventsCache = lastOp.before
    /\ IndicesOf(sharedEventsCache.events, lastOp.ev.id) # {}
(* C18: the override the mini navigator sets is consumed by the next task that
   asks the events source: whichever branch that invocation takes (cache,
   attach, request), the override is cleared, at once or, when the invocation
   sent a request, by the settling of that request; so a later invocation
   pads the range of the primary view itself *)
C18_OverrideConsumedOnce ==
    [][\A v \in Views :
          (fetchMonthOverride # NoOverride /\ Invocation(v))
              => \/ fetchMonthOverride' = NoOverride
                 \/ \E r \in inflight' \ inflight : r.usedOverride]_vars

(* ------------- two requests under one key, resolving in any order ------- *)
(* the JSON arrays a response can carry: up to MaxAbsorbLen events of
   pairwise distinct ids *)
RaceLists == {l \in SeqsUpTo(EventPool, MaxAbsorbLen) : DistinctIds(l)}

(* the responses absorbed so far, in the order they resolved *)
RaceLog == IF lastOp.name = "race" THEN lastOp.log ELSE <<>>

(* calendar.refetchEvents() / navigation asks the events source for range v *)
RaceAsk(v) ==
    /\ EventsSource(buildCacheKey, v, sideOps)
    /\ UNCHANGED <<selectedDentists, includeUnassigned, searchQuery, sharedEventsCache,
                   fetchMonthOverride, fetched, lastOp>>
    /\ UNCHANGED <<adapterVars, dentistVars, searchVars>>

(* the .then of request r runs with the JSON array list, storage.js:787-793 *)
RaceResolve(r, list) ==
    /\ Resolved(r, list)
    /\ lastOp' = [name |-> "race",
                  log |-> Append(RaceLog, [rid |-> r.rid, list |-> list,
                                           covStart |-> r.covStart, covEnd |-> r.covEnd,
                                           racing |-> Cardinality(inflight) = 2])]

RaceNext ==
    \/ \E v \in Views : RaceAsk(v)
    \/ \E r \in inflight, list \in RaceLists : RaceResolve(r, list)

RaceSpec == Init /\ [][RaceNext]_vars

(* C19: after two requests under one filter key have both resolved, in
   whichever order, the cached event of every id the later response carries is
   the later response's event, every event only the earlier response carries
   is cached too, and nothing else is cached *)
C19_LastWriteWins ==
    Len(RaceLog) = 2 =>
        LET first == RaceLog[1].list
            second == RaceLog[2].list
            c == sharedEventsCache.events
        IN /\ \A i \in 1..Len(second) :
                 /\ \E j \in 1..Len(c) : c[j] = second[i]
                 /\ \A j \in 1..Len(c) :
                       String(c[j].id) = String(second[i].id) => c[j] = second[i]
           /\ \A i \in 1..Len(first) :
                 IndicesOf(second, first[i].id) = {}
                     => \E j \in 1..Len(c) : c[j] = first[i]
           /\ \A j \in 1..Len(c) :
                 \/ \E i \in 1..Len(second) : c[j] = second[i]
                 \/ \E i \in 1..Len(first) : c[j] = first[i]

(* C19 witness: two requests for overlapping ranges were in flight together,
   the one sent second resolved first with events A (id 1) and C (id 2), the
   other resolved later with event B (id 1): B and C are cached *)
C19_Witness ==
    /\ Len(RaceLog) = 2
    /\ RaceLog[1].racing
    /\ RaceLog[1].rid = 2 /\ RaceLog[2].rid = 1
    /\ RaceLog[1].covStart < RaceLog[2].covEnd /\ RaceLog[2].covStart < RaceLog[1].covEnd
    /\ <<RaceLog[1].covStart, RaceLog[1].covEnd>> # <<RaceLog[2].covStart, RaceLog[2].covEnd>>
    /\ RaceLog[1].list = <<EvA, EvC>>
    /\ RaceLog[2].list = <<EvB>>
    /\ Len(sharedEventsCache.events) = 2
    /\ \E i, j \in 1..2 : sharedEventsCache.events[i] = EvB /\ sharedEventsCache.events[j] = EvC

(* ------------------- the filter key as the string it is ---------------- *)
MaxKeyLen == 3
MaxQueryLen == 2

(* a string is the sequence of its characters *)
DigitChars == <<"0", "1", "2", "3", "4", "5", "6", "7", "8", "9">>
(* String(n) of a dentist id below 100 *)
Digits(n) ==
    IF n < 10 THEN <<DigitChars[n + 1]>>
    ELSE <<DigitChars[(n \div 10) + 1], DigitChars[(n % 10) + 1]>>

RECURSIVE Join(_)
(* ids.join(',') *)
Join(ids) ==
    IF ids = <<>> THEN <<>>
    ELSE IF Len(ids) = 1 THEN Digits(ids[1])
    ELSE Digits(ids[1]) \o <<",">> \o Join(Tail(ids))

(* the key of a selection that is not sorted *)
KeyTextUnsorted(ids, includeUn, q) ==
    Join(ids) \o <<"|">> \o (IF includeUn THEN <<"1">> ELSE <<>>) \o <<"|">> \o q

(* storage.js:130-136: `${ids.join(',')}|${includeUn}|${q}` after
   ids.sort((a, b) => a - b) *)
KeyText(ids, includeUn, q) ==
    Join(SortIds(ids)) \o <<"|">> \o (IF includeUn THEN <<"1">> ELSE <<>>) \o <<"|">> \o q

(* the dentist ids of the checkboxes; a stored selection lists each checked id
   once, in any order *)
KeyIdPool == {1, 2, 12}
KeySelections == {l \in SeqsUpTo(KeyIdPool, MaxKeyLen) :
                    \A i, j \in 1..Len(l) : i # j => l[i] # l[j]}
(* search texts, the separator and the flag's character among them *)
KeyQueries == SeqsUpTo({"1", "|", "x"}, MaxQueryLen)

KeyFrame ==
    /\ UNCHANGED <<sharedEventsCache, pendingEventsFetches, inflight, waiters,
                   fetchMonthOverride, nextRid, sideOps, fetched>>
    /\ UNCHANGED <<adapterVars, dentistVars, searchVars>>

(* nothing stored yet: loadSelectedDentists() is [], loadIncludeUnassigned()
   false, loadSearchQuery() the empty string *)
KeyInit ==
    /\ selectedDentists = <<>>
    /\ includeUnassigned = FALSE
    /\ searchQuery = <<>>
    /\ sharedEventsCache = EmptyCache
    /\ pendingEventsFetches = <<>>
    /\ inflight = {}
    /\ waiters = <<>>
    /\ fetchMonthOverride = NoOverride
    /\ nextRid = 1
    /\ sideOps = 0
    /\ fetched = {}
    /\ lastOp = NoOp
    /\ AdapterInit /\ DentistInit /\ SearchInit

(* saveSelectedDentists(ids), then buildCacheKey() *)
KeySaveSelected(ids) ==
    /\ selectedDentists' = ids
    /\ lastOp' = [name |-> "key", key |-> KeyText(ids, includeUnassigned, searchQuery)]
    /\ UNCHANGED <<includeUnassigned, searchQuery>>
    /\ KeyFrame

(* saveIncludeUnassigned(val), then buildCacheKey() *)
KeySaveFlag(val) ==
    /\ includeUnassigned' = val
    /\ lastOp' = [name |-> "key", key |-> KeyText(selectedDentists, val, searchQuery)]
    /\ UNCHANGED <<selectedDentists, searchQuery>>
    /\ KeyFrame

(* saveSearchQuery(q), then buildCacheKey() *)
KeySaveQuery(q) ==
    /\ searchQuery' = q
    /\ lastOp' = [name |-> "key", key |-> KeyText(selectedDentists, includeUnassigned, q)]
    /\ UNCHANGED <<selectedDentists, includeUnassigned>>
    /\ KeyFrame

KeyNext ==
    \/ \E ids \in KeySelections : KeySaveSelected(ids)
    \/ \E val \in BOOLEAN : KeySaveFlag(val)
    \/ \E q \in KeyQueries : KeySaveQuery(q)

KeySpec == KeyInit /\ [][KeyNext]_vars

SetOf(ids) == {ids[i] : i \in 1..Len(ids)}

(* C20: the key built for the stored filters is the key of every selection
   holding the same dentist ids in another order with the same flag and search
   text, and it differs from the key of the same selection with another flag
   or another search text *)
C20_KeyOrderIndependent ==
    lastOp.name = "key" =>
        /\ \A ids \in KeySelections :
              SetOf(ids) = SetOf(selectedDentists)
                  => KeyText(ids, includeUnassigned, searchQuery) = lastOp.key
        /\ \A val \in BOOLEAN, q \in KeyQueries :
              (val # includeUnassigned \/ q # searchQuery)
                  => KeyText(selectedDentists, val, q) # lastOp.key

(* C20 witness: the stored selection is 12, 1, 2 with the flag set and a
   search text that holds the separator; the key is the one of 1, 2, 12 *)
C20_Witness ==
    /\ lastOp.name = "key"
    /\ selectedDentists = <<12, 1, 2>>
    /\ includeUnassigned
    /\ searchQuery = <<"|", "1">>
    /\ lastOp.key = <<"1", ",", "2", ",", "1", "2", "|", "1", "|", "|", "1">>
    /\ lastOp.key = KeyText(<<1, 2, 12>>, TRUE, <<"|", "1">>)

(* ---------------------- the local persistence adapter ------------------- *)
MaxTextLen == 3
MaxMinutes == 16

(* what evaluating a call gives: a value, or an exception for the caller *)
Return(v) == [kind |-> "return", value |-> v]
Throw == [kind |-> "throw"]

(* localStorage.getItem(key): throws when the storage fails, otherwise <<>>
   for null and <<text>> for the stored text *)
getItem(key) ==
    IF storageFails THEN Throw
    ELSE Return(IF key \in DOMAIN localStorage THEN <<localStorage[key]>> ELSE <<>>)

(* localStorage.setItem(key, text): the storage after the call, unchanged
   when the call throws *)
setItem(key, text) ==
    IF storageFails THEN [kind |-> "throw", storage |-> localStorage]
    ELSE [kind |-> "return",
          storage |-> [k \in (DOMAIN localStorage) \cup {key} |->
                          IF k = key THEN text ELSE localStorage[k]]]

(* try { setItem } catch (e) { console.error }: the setters of storage.js *)
TrySetItem(key, text) == [kind |-> "return", storage |-> setItem(key, text).storage]

(* parseInt(text, 10) on a text given as the sequence of its characters: blanks
   are skipped, a sign is read, then digits up to the first other character;
   NaN (a number no text of the model denotes) when there is no digit *)
RECURSIVE SkipBlanks(_)
SkipBlanks(t) == IF t # <<>> /\ Head(t) = " " THEN SkipBlanks(Tail(t)) ELSE t

IsDigit(c) == \E i \in 1..10 : DigitChars[i] = c
DigitValue(c) == (CHOOSE i \in 1..10 : DigitChars[i] = c) - 1

RECURSIVE LeadingDigits(_)
LeadingDigits(t) ==
    IF t # <<>> /\ IsDigit(Head(t)) THEN <<Head(t)>> \o LeadingDigits(Tail(t)) ELSE <<>>

RECURSIVE ValueOfDigits(_)
ValueOfDigits(ds) ==
    IF ds = <<>> THEN 0
    ELSE 10 * ValueOfDigits(SubSeq(ds, 1, Len(ds) - 1)) + DigitValue(ds[Len(ds)])

parseInt(t) ==
    LET u == SkipBlanks(t)
        signed == u # <<>> /\ Head(u) \in {"-", "+"}
        ds == LeadingDigits(IF signed THEN Tail(u) ELSE u)
    IN IF ds = <<>> THEN NaN
       ELSE IF signed /\ Head(u) = "-" THEN 0 - ValueOfDigits(ds)
       ELSE ValueOfDigits(ds)

isFinite(x) == x # NaN

(* a getter that returns the stored number as it is parsed *)
getDurationUnguarded ==
    LET item == getItem("defaultEventDurationMin")
    IN IF item.kind = "throw" THEN Return(60)
       ELSE Return(parseInt(IF item.value = <<>> \/ item.value[1] = <<>>
                            THEN <<"6", "0">> ELSE item.value[1]))

(* storage.js:84-93 *)
getDefaultEventDurationMin ==
    LET item == getItem("defaultEventDurationMin")
    IN IF item.kind = "throw" THEN Return(60)
       ELSE LET saved == parseInt(IF item.value = <<>> \/ item.value[1] = <<>>
                                  THEN <<"6", "0">> ELSE item.value[1])
            IN IF ~isFinite(saved) \/ saved <= 0 \/ saved = 15
               THEN Return(60) ELSE Return(saved)

(* storage.js:94-101; mins is the number parseInt gave the click handler
   (storage.js:1027), NaN included *)
setDefaultEventDurationMin(mins) ==
    LET v == IF ~isFinite(mins) \/ mins <= 0 \/ mins = 15 THEN 60 ELSE mins
    IN TrySetItem("defaultEventDurationMin", Digits(v))

(* the texts an earlier version of the page, or the user, may have left under
   the key *)
DurationTexts == SeqsUpTo({"0", "1", "5", "6", "-", " ", "x"}, MaxTextLen)
DurationInputs == (-1..MaxMinutes) \cup {60, NaN}

DurationInit ==
    /\ CalendarInit /\ DentistInit /\ SearchInit
    /\ storageFails = FALSE
    /\ \/ localStorage = <<>>
       \/ \E t \in DurationTexts : localStorage = [defaultEventDurationMin |-> t]

AdapterFrame == UNCHANGED <<calendarVars, dentistVars, searchVars>>

(* a click on a duration button of the settings menu, storage.js:1027 *)
SetDuration(mins) ==
    /\ localStorage' = setDefaultEventDurationMin(mins).storage
    /\ lastOp' = [name |-> "setDuration", mins |-> mins]
    /\ UNCHANGED storageFails
    /\ AdapterFrame

(* the settings menu opens, or a new event needs its end, storage.js:498, 837 *)
GetDuration ==
    /\ lastOp' = [name |-> "getDuration", got |-> getDefaultEventDurationMin]
    /\ UNCHANGED adapterVars
    /\ AdapterFrame

DurationNext ==
    \/ \E mins \in DurationInputs : SetDuration(mins)
    \/ GetDuration

DurationSpec == DurationInit /\ [][DurationNext]_vars

(* C21: right after set(m) the stored text is that of m when m is a positive
   number other than 15 and that of 60 otherwise, and get returns that number;
   whatever text is stored, or none, get returns a positive number other than
   15, and 60 when nothing is stored or the text holds no number *)
C21_DurationGuard ==
    LET got == getDefaultEventDurationMin
        stored == getItem("defaultEventDurationMin").value
    IN /\ got.kind = "return" /\ got.value > 0 /\ got.value # 15
       /\ (stored = <<>> \/ parseInt(stored[1]) = NaN) => got.value = 60
       /\ lastOp.name = "setDuration" =>
             LET m == lastOp.mins
                 want == IF m # NaN /\ m > 0 /\ m # 15 THEN m ELSE 60
             IN stored = <<Digits(want)>> /\ got.value = want

(* C21 witness: the duration was set to 15; the text stored is "60" and get
   returns 60 *)
C21_Witness ==
    /\ lastOp.name = "setDuration"
    /\ lastOp.mins = 15
    /\ localStorage["defaultEventDurationMin"] = <<"6", "0">>
    /\ getDefaultEventDurationMin = Return(60)

(* storage.js:10-17 *)
getTheme ==
    LET item == getItem("calendarTheme")
    IN IF item.kind = "throw" THEN Return("default")
       ELSE Return(IF item.value = <<>> \/ item.value[1] = "" THEN "default"
                   ELSE item.value[1])

(* storage.js:18-24: theme || 'default'; theme: the text "" stands for every
   falsy argument *)
setTheme(theme) == TrySetItem("calendarTheme", IF theme = "" THEN "default" ELSE theme)

(* storage.js:28-36 *)
getWeekendsSetting ==
    LET item == getItem("timeGridWeek_weekends")
    IN IF item.kind = "throw" THEN Return(TRUE)
       ELSE Return(IF item.value = <<>> THEN TRUE ELSE item.value[1] = "true")

(* part_000:279-282: the same getter of the page's inline script, which reads
   the storage outside any try *)
getWeekendsSettingInline ==
    LET item == getItem("timeGridWeek_weekends")
    IN IF item.kind = "throw" THEN Throw
       ELSE Return(IF item.value = <<>> THEN TRUE ELSE item.value[1] = "true")

(* String(!!val) *)
StringOfBoolean(val) == IF val THEN "true" ELSE "false"

(* storage.js:37-43, part_000:284-288 *)
setWeekendsSetting(val) == TrySetItem("timeGridWeek_weekends", StringOfBoolean(val))

(* JSON texts: of an array of ids, of a value that is no array, a text that
   is no JSON, the empty text *)
JSONstringify(ids) == <<"array", ids>>
JSONparse(text) ==
    CASE text[1] = "array" -> Return(text)
      [] text[1] = "object" -> Return(text)
      [] OTHER -> Throw

(* storage.js:48-54: JSON.stringify(ids || []) *)
saveSelectedDentists(ids) ==
    TrySetItem("selectedDentists", JSONstringify(IF ids = Null THEN <<>> ELSE ids))

(* storage.js:55-65 *)
loadSelectedDentists ==
    LET item == getItem("selectedDentists")
    IN IF item.kind = "throw" THEN Return(<<>>)
       ELSE IF item.value = <<>> \/ item.value[1] = <<"empty">> THEN Return(<<>>)
       ELSE LET arr == JSONparse(item.value[1])
            IN IF arr.kind = "throw" THEN Return(<<>>)
               ELSE IF arr.value[1] = "array" THEN Return(arr.value[2])
               ELSE Return(<<>>)

(* storage.js:66-72 *)
saveIncludeUnassigned(val) == TrySetItem("includeUnassigned", StringOfBoolean(val))

(* storage.js:73-80 *)
loadIncludeUnassigned ==
    LET item == getItem("includeUnassigned")
    IN IF item.kind = "throw" THEN Return(FALSE)
       ELSE Return(item.value = <<"true">>)

(* storage.js:105-111: q || '' *)
saveSearchQuery(q) == TrySetItem("calendarSearchQuery", q)

(* storage.js:112-119 *)
loadSearchQuery ==
    LET item == getItem("calendarSearchQuery")
    IN IF item.kind = "throw" THEN Return("")
       ELSE Return(IF item.value = <<>> THEN "" ELSE item.value[1])

(* what an earlier version of the page may have left in the storage *)
LegacyStorage ==
    [calendarTheme |-> "", timeGridWeek_weekends |-> "x",
     selectedDentists |-> <<"garbage">>, includeUnassigned |-> "x",
     defaultEventDurationMin |-> <<"1", "5">>, calendarSearchQuery |-> ""]

AdapterSpecInit ==
    /\ CalendarInit /\ DentistInit /\ SearchInit
    /\ storageFails \in BOOLEAN
    /\ localStorage \in {<<>>, LegacyStorage}

(* the getters of the adapter, by name *)
Getters == {"getTheme", "getWeekendsSetting", "getWeekendsSettingInline",
            "loadSelectedDentists", "loadIncludeUnassigned",
            "getDefaultEventDurationMin", "loadSearchQuery"}

Outcome(getter) ==
    CASE getter = "getTheme" -> getTheme
      [] getter = "getWeekendsSetting" -> getWeekendsSetting
      [] getter = "getWeekendsSettingInline" -> getWeekendsSettingInline
      [] getter = "loadSelectedDentists" -> loadSelectedDentists
      [] getter = "loadIncludeUnassigned" -> loadIncludeUnassigned
      [] getter = "getDefaultEventDurationMin" -> getDefaultEventDurationMin
      [] getter = "loadSearchQuery" -> loadSearchQuery

(* the default each getter documents *)
DefaultOf(getter) ==
    CASE getter = "getTheme" -> "default"
      [] getter \in {"getWeekendsSetting", "getWeekendsSettingInline"} -> TRUE
      [] getter = "loadSelectedDentists" -> <<>>
      [] getter = "loadIncludeUnassigned" -> FALSE
      [] getter = "getDefaultEventDurationMin" -> 60
      [] getter = "loadSearchQuery" -> ""

(* some code of the page calls a getter *)
Get(getter) ==
    /\ lastOp' = [name |-> "get", getter |-> getter, got |-> Outcome(getter)]
    /\ UNCHANGED adapterVars
    /\ AdapterFrame

(* some code of the page calls a setter; after is what the setter gave *)
Set(setter, after) ==
    /\ localStorage' = after.storage
    /\ lastOp' = [name |-> "set", setter |-> setter, kind |-> after.kind]
    /\ UNCHANGED storageFails
    /\ AdapterFrame

(* the storage starts or stops throwing: quota reached, privacy mode *)
StorageTurns ==
    /\ storageFails' = ~storageFails
    /\ lastOp' = NoOp
    /\ UNCHANGED localStorage
    /\ AdapterFrame

AdapterNext ==
    \/ \E getter \in Getters : Get(getter)
    \/ \E theme \in {"", "dark"} : Set("setTheme", setTheme(theme))
    \/ \E val \in BOOLEAN : Set("setWeekendsSetting", setWeekendsSetting(val))
    \/ \E ids \in {Null, <<1>>} : Set("saveSelectedDentists", saveSelectedDentists(ids))
    \/ \E val \in BOOLEAN : Set("saveIncludeUnassigned", saveIncludeUnassigned(val))
    \/ \E mins \in {15, MaxMinutes} :
          Set("setDefaultEventDurationMin", setDefaultEventDurationMin(mins))
    \/ \E q \in Queries : Set("saveSearchQuery", saveSearchQuery(q))
    \/ StorageTurns

AdapterSpec == AdapterSpecInit /\ [][AdapterNext]_vars

(* C22: no getter and no setter of the adapter lets a storage error reach its
   caller: while the storage throws every getter returns its documented
   default and every setter returns *)
C22_FailSoft ==
    /\ lastOp.name = "get" =>
          /\ lastOp.got.kind = "return"
          /\ storageFails => lastOp.got.value = DefaultOf(lastOp.getter)
    /\ lastOp.name = "set" => lastOp.kind = "return"

(* ----------------------------- the dentist list ------------------------- *)
MaxTicks == 3
MaxDentistFetches == 2
DENTISTS_CACHE_TTL_MS == 300000
(* the clock advances by half the freshness window *)
TickMs == DENTISTS_CACHE_TTL_MS \div 2

(* the arrays GET /dentists may answer, as the ids of their dentists *)
DentistLists == {<<>>, <<1>>, <<1, 2>>}

(* JSON.stringify({ list, at: Date.now() }) *)
SnapshotText(list, at) == <<"snapshot", list, at>>

(* storage.js:225-238: the stored list if it is at most DENTISTS_CACHE_TTL_MS
   old, <<>> for null and <<list>> otherwise *)
loadDentistsFromStorageRaw ==
    LET item == getItem("dentistsCacheV1")
    IN IF item.kind = "throw" \/ item.value = <<>> THEN <<>>
       ELSE LET obj == item.value[1]
            IN IF obj[1] # "snapshot" \/ obj[3] = 0 THEN <<>>
               ELSE IF (now - obj[3]) > DENTISTS_CACHE_TTL_MS THEN <<>>
               ELSE <<obj[2]>>

(* storage.js:239-245 *)
saveDentistsToStorageRaw(list) == TrySetItem("dentistsCacheV1", SnapshotText(list, now))

(* a variant that sends a request whenever none answers from a cache *)
DentistBranchNoShare(force) ==
    IF ~force /\ dentistsCache.list # <<>> THEN "memory"
    ELSE IF ~force /\ loadDentistsFromStorageRaw # <<>> THEN "storage"
    ELSE "request"

(* the branch fetchDentistsOnce(force) takes, storage.js:246-257 *)
DentistBranch(force) ==
    IF ~force /\ dentistsCache.list # <<>> THEN "memory"
    ELSE IF ~force /\ loadDentistsFromStorageRaw # <<>> THEN "storage"
    ELSE IF dentistsPending # Null THEN "pending"
    ELSE "request"

DentistFrame ==
    UNCHANGED <<selectedDentists, includeUnassigned, searchQuery, sharedEventsCache,
                pendingEventsFetches, inflight, waiters, fetchMonthOverride,
                sideOps, fetched, storageFails, searchVars>>

(* some code of the page calls fetchDentistsOnce(force), storage.js:245-276;
   dentistsCache.at is history: when the list in memory left the server *)
Call(force) ==
    LET branch == DentistBranch(force)
        call == [name |-> "call", force |-> force, branch |-> branch,
                 wasPending |-> dentistsPending, first |-> dentistsCache.list = <<>>,
                 selBefore |-> loadSelectedDentists.value,
                 snapshot |-> loadDentistsFromStorageRaw]
    IN /\ CASE branch = "memory" ->
                 /\ lastOp' = call @@ [list |-> dentistsCache.list, at |-> dentistsCache.at]
                 /\ UNCHANGED <<dentistsCache, dentistsPending, dentistRequests, nextRid>>
            [] branch = "storage" ->
                 LET obj == localStorage["dentistsCacheV1"]
                 IN /\ dentistsCache' = [list |-> obj[2], at |-> obj[3]]
                    /\ lastOp' = call @@ [list |-> obj[2], at |-> obj[3]]
                    /\ UNCHANGED <<dentistsPending, dentistRequests, nextRid>>
            [] branch = "pending" ->
                 /\ lastOp' = call @@ [promise |-> dentistsPending]
                 /\ UNCHANGED <<dentistsCache, dentistsPending, dentistRequests, nextRid>>
            [] branch = "request" ->
                 /\ nextRid <= MaxDentistFetches
                 /\ dentistRequests' = dentistRequests \cup {[rid |-> nextRid, force |-> force]}
                 /\ dentistsPending' = <<nextRid>>
                 /\ nextRid' = nextRid + 1
                 /\ lastOp' = call @@ [promise |-> <<nextRid>>]
                 /\ UNCHANGED dentistsCache
       /\ UNCHANGED <<localStorage, now>>
       /\ DentistFrame

(* storage after setItem(key, text) on a storage that does not throw *)
StorageWith(storage, key, text) ==
    [k \in (DOMAIN storage) \cup {key} |-> IF k = key THEN text ELSE storage[k]]

(* the request answers 200 with the JSON array list: the second .then and the
   .finally of storage.js:260-275 *)
SettleOk(r, list) ==
    LET saved == loadSelectedDentists.value
        stamped == saveDentistsToStorageRaw(list).storage
    IN /\ r \in dentistRequests
       /\ dentistsCache' = [list |-> list, at |-> now]
       /\ localStorage' = IF saved = <<>> /\ ~storageFails
                          THEN StorageWith(stamped, "selectedDentists", JSONstringify(list))
                          ELSE stamped
       /\ dentistsPending' = Null
       /\ dentistRequests' = dentistRequests \ {r}
       /\ lastOp' = [name |-> "settled", ok |-> TRUE, rid |-> r.rid, list |-> list,
                     first |-> dentistsCache.list = <<>>, selBefore |-> saved]
       /\ UNCHANGED <<now, nextRid>>
       /\ DentistFrame

(* the request answers 304: r.status === 304 ? (dentistsCache.list || []) *)
SettleNotModified(r) == SettleOk(r, dentistsCache.list)

(* the request rejects or its body is no JSON: only the .finally runs *)
SettleFails(r) ==
    /\ r \in dentistRequests
    /\ dentistsPending' = Null
    /\ dentistRequests' = dentistRequests \ {r}
    /\ lastOp' = [name |-> "settled", ok |-> FALSE, rid |-> r.rid]
    /\ UNCHANGED <<dentistsCache, localStorage, now, nextRid>>
    /\ DentistFrame

(* time passes *)
Tick ==
    /\ now < 1 + MaxTicks * TickMs
    /\ now' = now + TickMs
    /\ lastOp' = NoOp
    /\ UNCHANGED <<dentistsCache, dentistsPending, dentistRequests, localStorage, nextRid>>
    /\ DentistFrame

(* the page is loaded again: the module starts with an empty list and no
   promise; responses to the old page are dropped; the storage stays *)
Reload ==
    /\ dentistsCache' = [list |-> <<>>, at |-> 0]
    /\ dentistsPending' = Null
    /\ dentistRequests' = {}
    /\ lastOp' = NoOp
    /\ UNCHANGED <<localStorage, now, nextRid>>
    /\ DentistFrame

(* a dentist checkbox changes, storage.js:1071-1076 / 1100-1103 *)
CheckDentists(ids) ==
    /\ localStorage' = saveSelectedDentists(ids).storage
    /\ lastOp' = NoOp
    /\ UNCHANGED <<dentistsCache, dentistsPending, dentistRequests, now, nextRid>>
    /\ DentistFrame

DentistNext ==
    \/ \E force \in BOOLEAN : Call(force)
    \/ \E r \in dentistRequests, list \in DentistLists : SettleOk(r, list)
    \/ \E r \in dentistRequests : SettleNotModified(r)
    \/ \E r \in dentistRequests : SettleFails(r)
    \/ Tick
    \/ Reload
    \/ \E ids \in {<<>>, <<1>>} : CheckDentists(ids)

DentistSpec == Init /\ [][DentistNext]_vars

(* C23 as stated: at most one request is in flight, the marker is set exactly
   while one is, and every call made while one is in flight gets the promise
   of that request *)
C23_SharedRequest ==
    /\ Cardinality(dentistRequests) <= 1
    /\ (dentistsPending = Null) <=> (dentistRequests = {})
    /\ \A r \in dentistRequests : dentistsPending = <<r.rid>>
    /\ (lastOp.name = "call" /\ lastOp.wasPending # Null)
          => lastOp.branch = "pending" /\ lastOp.promise = lastOp.wasPending

(* C23, amended: the same, for the calls that find no list to answer from (a
   forced call, or one that finds neither a list in memory nor a fresh one in
   the storage) *)
C23_SharedRefresh ==
    /\ Cardinality(dentistRequests) <= 1
    /\ (dentistsPending = Null) <=> (dentistRequests = {})
    /\ \A r \in dentistRequests : dentistsPending = <<r.rid>>
    /\ (lastOp.name = "call" /\ lastOp.wasPending # Null
           /\ lastOp.branch \notin {"memory", "storage"})
          => lastOp.branch = "pending" /\ lastOp.promise = lastOp.wasPending
    /\ lastOp.name = "settled" => dentistsPending = Null

(* C23 witness: a forced call made while a request was in flight got the
   promise of that request, and no second request was sent *)
C23_Witness ==
    /\ lastOp.name = "call"
    /\ lastOp.force
    /\ lastOp.wasPending # Null
    /\ lastOp.promise = lastOp.wasPending
    /\ Cardinality(dentistRequests) = 1

(* C24: an unforced call is answered without a request only from a list that
   left the server at most DENTISTS_CACHE_TTL_MS ago, and an unforced call
   made when the storage holds no snapshot that fresh goes to the network (the
   request in flight, or a new one) *)
C24_FreshnessWindow ==
    (lastOp.name = "call" /\ ~lastOp.force) =>
        /\ lastOp.branch \in {"memory", "storage"}
              => now - lastOp.at <= DENTISTS_CACHE_TTL_MS
        /\ lastOp.snapshot = <<>> => lastOp.branch \in {"pending", "request"}

(* a list reached the caller of fetchDentistsOnce or of its promise *)
ListLoaded ==
    \/ lastOp.name = "call" /\ lastOp.branch \in {"memory", "storage"}
    \/ lastOp.name = "settled" /\ lastOp.ok

(* C25: when the first list of a session is loaded and the stored selection is
   empty, the stored selection becomes the ids of the list; a load that finds
   a stored selection leaves it as it is *)
C25_DefaultSelection ==
    ListLoaded =>
        /\ (lastOp.first /\ lastOp.selBefore = <<>>)
              => loadSelectedDentists.value = lastOp.list
        /\ lastOp.selBefore # <<>> => loadSelectedDentists.value = lastOp.selBefore

(* ------------------------------ model search ---------------------------- *)
MaxSearches == 3

(* the texts typed in the search box, two characters at least (part_002:841) *)
SearchTexts == {"aa", "bb"}

SearchFrame == UNCHANGED <<calendarVars, adapterVars, dentistVars>>

(* searchController.abort(): the requests made with the controller are aborted *)
Aborted(requests, controller) ==
    {[r EXCEPT !.aborted = @ \/ <<r.rid>> = controller] : r \in requests}

(* performSearch with query in the box, part_002:831-852, and the synchronous
   part of searchHuggingFace, part_002:854-885 *)
PerformSearch(query) ==
    /\ lastSearchQuery' = query
    /\ IF isLoading
       THEN /\ lastOp' = [name |-> "search", query |-> query, sent |-> FALSE,
                          before |-> searchRequests]
            /\ UNCHANGED <<isLoading, searchController, searchRequests, nextRid>>
       ELSE /\ nextRid <= MaxSearches
            /\ nextRid' = nextRid + 1
            /\ searchController' = <<nextRid>>
            /\ isLoading' = TRUE
            /\ searchRequests' = Aborted(searchRequests, searchController)
                                   \cup {[rid |-> nextRid, query |-> query,
                                          aborted |-> FALSE]}
            /\ lastOp' = [name |-> "search", query |-> query, sent |-> TRUE,
                          before |-> searchRequests]
    /\ UNCHANGED searchResults
    /\ UNCHANGED <<selectedDentists, includeUnassigned, searchQuery, sharedEventsCache,
                   pendingEventsFetches, inflight, waiters, fetchMonthOverride,
                   sideOps, fetched, adapterVars, dentistVars>>

(* the finally block, part_002:939-944 *)
SearchFinally(r) ==
    /\ isLoading' = FALSE
    /\ searchController' = Null
    /\ searchRequests' = searchRequests \ {r}
    /\ UNCHANGED lastSearchQuery
    /\ SearchFrame

(* the response of r arrives with success and the models for r.query *)
SearchResolves(r) ==
    /\ r \in searchRequests /\ ~r.aborted
    /\ searchResults' = <<r.query>>
    /\ lastOp' = [name |-> "applied", query |-> r.query]
    /\ SearchFinally(r)

(* the fetch of r rejects: aborted (no message), or failed (an error is shown) *)
SearchRejects(r) ==
    /\ r \in searchRequests
    /\ UNCHANGED searchResults
    /\ lastOp' = [name |-> "rejected", query |-> r.query, aborted |-> r.aborted]
    /\ SearchFinally(r)

(* showLoading / hideLoading of another operation of the page, part_002:2532-2567 *)
SetLoading(val) ==
    /\ isLoading # val
    /\ isLoading' = val
    /\ lastOp' = NoOp
    /\ UNCHANGED <<searchController, searchRequests, searchResults, lastSearchQuery>>
    /\ SearchFrame

SearchNext ==
    \/ \E query \in SearchTexts : PerformSearch(query)
    \/ \E r \in searchRequests : SearchResolves(r)
    \/ \E r \in searchRequests : SearchRejects(r)
    \/ \E val \in BOOLEAN : SetLoading(val)

SearchSpec == Init /\ [][SearchNext]_vars

(* the requests whose response can still be applied *)
Live(requests) == {r \in requests : ~r.aborted}

(* C26: a search issued while another is in flight aborts it and is sent, and
   the results applied are those of the search issued last *)
C26_LastSearchWins ==
    /\ (lastOp.name = "search" /\ Live(lastOp.before) # {})
          => /\ lastOp.sent
             /\ \A r \in Live(searchRequests) : r.query = lastOp.query
    /\ lastOp.name = "applied" => lastOp.query = lastSearchQuery

(* ------------- late responses against newer state of the page ----------- *)
(* C27: once a confirmed deletion removed an event from the cache, the response
   of a request that was sent before the deletion does not put an event with
   that id back into the cache under the same filter key *)
C27_DeletedStaysDeleted ==
    [][\A r \in inflight : \A list \in ServerLists :
          (/\ lastOp.name = "delete"
           /\ lastOp.found
           /\ r.key = sharedEventsCache.key
           /\ FetchResolves(r, list))
              => String(lastOp.id) \notin IdsOf(sharedEventsCache'.events)]_vars

(* C28: while the cache holds a window under the filter key that is current,
   the response of a request sent under another, earlier filter key leaves the
   cache's key, coverage and events as they are *)
C28_StaleKeyResponseIgnored ==
    [][\A r \in inflight : \A list \in ServerLists :
          (/\ r.key # buildCacheKey
           /\ sharedEventsCache.key = buildCacheKey
           /\ sharedEventsCache.start # NoDate
           /\ sharedEventsCache.end # NoDate
           /\ FetchResolves(r, list))
              => sharedEventsCache' = sharedEventsCache]_vars

(* C29: an override the mini navigator has just set, which no invocation of
   the events source has read yet, is still set after a request sent before
   that navigation settles *)
C29_NewerOverrideKept ==
    [][\A r \in inflight :
          (/\ lastOp.name = "miniDatesSet"
           /\ \/ FetchFails(r)
              \/ \E list \in ServerLists : FetchResolves(r, list))
              => fetchMonthOverride' = fetchMonthOverride]_vars

(* C30: the point operations mutate, remove and insert leave the stored filter
   key, the coverage start and the coverage end as they were, whether the id
   is found or not; the key or the window differ from before only after an
   absorb or a reset *)
C30_PointOpsKeepWindow ==
    /\ lastOp.name \in {"mutate", "remove", "insert"} =>
          /\ sharedEventsCache.key = lastOp.before.key
          /\ sharedEventsCache.start = lastOp.before.start
          /\ sharedEventsCache.end = lastOp.before.end
    /\ (/\ lastOp.name \in {"mutate", "remove", "insert", "absorb", "reset"}
        /\ \/ sharedEventsCache.key # lastOp.before.key
           \/ sharedEventsCache.start # lastOp.before.start
           \/ sharedEventsCache.end # lastOp.before.end)
          => lastOp.name \in {"absorb", "reset"}

(* an event was removed from a cache that holds a window, and the window is
   still there *)
C30_Witness ==
    /\ lastOp.name = "remove"
    /\ lastOp.before.start # NoDate
    /\ lastOp.before.end # NoDate
    /\ Len(sharedEventsCache.events) < Len(lastOp.before.events)
    /\ sharedEventsCache.start = lastOp.before.start

=============================================================================
